---- MODULE Spec2Model ----
(***************************************************************************)
(* A model of wordpress-logins-finder: the candidate generator and scheme  *)
(* probe (utils/constants.py, utils/request_manager.py), the probing       *)
(* engine RequestManager (semaphore, retry loop, gather, session) and the  *)
(* entry point (logins_finder.py).                                         *)
(*                                                                         *)
(* A URL string is a sequence of tokens, e.g.                              *)
(*   <<"https", "://", "example.com", "/wp-json/wp/v2/users">>             *)
(* so that f-string concatenation is \o and a prefix is a leading SubSeq.  *)
(***************************************************************************)
EXTENDS Integers, Sequences, FiniteSets, TLC

(***************************************************************************)
(* Bounds of the model.                                                    *)
(***************************************************************************)
\* Longest URL list handed to RequestManager in Spec.
MaxUrls == 2
\* Largest semaphore capacity tried in Spec (the source configures 51; the
\* model draws the capacity from 1..MaxCapacity so that N > C happens).
MaxCapacity == 2
\* Last numbered user id generated in SpecMain (the source's range(1, 1000)
\* makes it 999).
MaxUserId == 1

(***************************************************************************)
(* Config (utils/constants.py).                                            *)
(***************************************************************************)
LIMIT_OF_ATTEMPTS_TO_RETRY == 5
\* Mutant: every failure costs two attempts.
REQUESTS_RETRIES_NUM_TO_REMOVE_two == 1 + 1

REQUESTS_RETRIES_NUM_TO_REMOVE == 1
\* Mutant: 404 is missing from the list.
ERRORS_STATUS_CODES_without_404 == {400, 403, 500}

ERRORS_STATUS_CODES == {400, 403, 404, 500}
RESULT_FILE_NAME == "results.json"
SIMULTANEOUS_CONCURRENT_TASKS == 51

(***************************************************************************)
(* Strings.                                                                *)
(***************************************************************************)
\* str.lower() on the host names the model uses.
Lower(s) ==
    CASE s = "Example.com" -> "example.com"
      [] OTHER -> s

\* re.sub(r'^https?://', '', url)
strip_scheme(url) ==
    IF Len(url) >= 2 /\ url[1] \in {"http", "https"} /\ url[2] = "://"
    THEN SubSeq(url, 3, Len(url))
    ELSE url

FixedPaths ==
    << "/blog/wp-json/wp/v2/users",
       "/blog/?rest_route=/wp/v2/users",
       "/wp-json/wp/v2/users",
       "/section/news?rest_route=/wp/v2/users",
       "/section/news?rest_route=/wp/v2/usErs" >>

\* The five f'{target}/...' entries, then extend() with the numbered
\* entries, which carry no {target}, then append() of the search entry.
targets_to_check(target) ==
    [k \in 1..Len(FixedPaths) |-> target \o <<FixedPaths[k]>>]
    \o [i \in 1..MaxUserId |-> <<"/wp-json/wp/v2/users/", ToString(i)>>]
    \o << target \o <<"/wp-json/wp/v2/users?search=admin@">> \o strip_scheme(target) >>

\* yarl.URL(url): an absolute URL has a scheme and a host (lower-cased by
\* yarl); anything else is a relative URL without host.
URL(url) ==
    IF Len(url) >= 3 /\ url[2] = "://"
    THEN [scheme |-> url[1], host |-> Lower(url[3]), rest |-> SubSeq(url, 4, Len(url))]
    ELSE [scheme |-> "", host |-> "", rest |-> url]

\* Mutant: only the path and query are kept.
URL_str_path_only(u) == u.rest

\* str(url) of a yarl.URL
URL_str(u) ==
    IF u.host = "" THEN u.rest ELSE <<u.scheme, "://", u.host>> \o u.rest

(***************************************************************************)
(* What one session.get(url) attempt can meet.                             *)
(***************************************************************************)
NoBody == [ctype |-> "none", payload |-> "none"]

\* Errors the exchange itself is made to raise: a connection failure, a
\* response error, a timeout, a server disconnect, an OS socket error.
TransportErrors ==
    {"ClientConnectorError", "ClientResponseError", "TimeoutError",
     "ServerDisconnectedError", "ClientOSError"}

Bodies ==
    { [ctype |-> "text/html",        payload |-> "invalid_json"],
      [ctype |-> "application/json", payload |-> "invalid_utf8"],
      [ctype |-> "application/json", payload |-> "invalid_json"],
      [ctype |-> "application/json", payload |-> "valid_json"] }

StatusPool == {200, 404}

\* An attempt's event: an exception raised by session.get, or a response.
NoEvent == [kind |-> "none", exc |-> "none", status |-> 0, body |-> NoBody]

HttpEvents ==
    { [kind |-> "http", exc |-> "none", status |-> s, body |-> b] :
        s \in StatusPool \ ERRORS_STATUS_CODES, b \in Bodies }
    \cup
    { [kind |-> "http", exc |-> "none", status |-> s, body |-> NoBody] :
        s \in StatusPool \cap ERRORS_STATUS_CODES }

ErrorEvents ==
    { [kind |-> "error", exc |-> e, status |-> 0, body |-> NoBody] :
        e \in TransportErrors }

InvalidUrlEvent ==
    [kind |-> "error", exc |-> "InvalidURL", status |-> 0, body |-> NoBody]

\* session.get on a closed session raises RuntimeError('Session is closed').
SessionClosedEvent ==
    [kind |-> "error", exc |-> "RuntimeError", status |-> 0, body |-> NoBody]

\* aiohttp refuses a URL without host before anything is sent.
Events(url) ==
    IF URL(url).host = "" THEN {InvalidUrlEvent} ELSE HttpEvents \cup ErrorEvents

\* The decoded JSON document of a valid body.
DecodedJson == "{id: 1, name: admin}"

\* await response.json(): the content type is checked first
\* (ContentTypeError, a ClientResponseError), then the bytes are decoded
\* (UnicodeDecodeError), then parsed (json.JSONDecodeError, a ValueError).
response_json(body) ==
    IF body.ctype # "application/json"
    THEN [exc |-> "ContentTypeError", value |-> "none"]
    ELSE IF body.payload = "invalid_utf8"
    THEN [exc |-> "UnicodeDecodeError", value |-> "none"]
    ELSE IF body.payload = "invalid_json"
    THEN [exc |-> "JSONDecodeError", value |-> "none"]
    ELSE [exc |-> "none", value |-> DecodedJson]

\* Python's exception classes: the class an except clause matches.
BaseClass(exc) ==
    CASE exc = "ContentTypeError" -> "ClientResponseError"
      [] OTHER -> exc

\* except (ClientConnectorError, ClientResponseError, ServerTimeoutError,
\*         TimeoutError, ServerDisconnectedError, ClientOSError)
RetryableExceptions ==
    {"ClientConnectorError", "ClientResponseError", "ServerTimeoutError",
     "TimeoutError", "ServerDisconnectedError", "ClientOSError"}

\* Mutant: UnicodeDecodeError is missing from the clause.
BreakExceptions_without_unicode == {"InvalidURL"}

\* except (UnicodeDecodeError, InvalidURL,)
BreakExceptions == {"UnicodeDecodeError", "InvalidURL"}

\* Mutant: the body is never read.
Populated_without_body(url, status, body) ==
    [url |-> URL_str(URL(url)), status_code |-> status, body |-> "none"]

\* The empty outcome (Python's None) and the populated one.
None == [url |-> <<>>, status_code |-> 0, body |-> "none"]

Populated(url, status, body) ==
    [url |-> URL_str(URL(url)), status_code |-> status, body |-> body]

\* The exception one pass through the try block ends with ("none": no
\* exception): the body is read only for a non-error status.
attempt_exception(ev) ==
    IF ev.kind = "error" THEN ev.exc
    ELSE IF ev.status \notin ERRORS_STATUS_CODES THEN response_json(ev.body).exc
    ELSE "none"

\* Mutant: the loop makes one pass too many (`while left >= 0`).
loop_continues_one_more(attempts_left) == attempts_left >= 0

\* Mutant: the loop gives up one attempt early (`while left > 1`).
loop_continues_early_stop(attempts_left) == attempts_left > 1

\* `while left_of_attempts_to_retry:` goes on while the number is not 0.
loop_continues(attempts_left) == attempts_left # 0

\* One pass of the while loop of _fetch on event ev with attempts_left
\* attempts left: how the pass ends, the attempts left after it, the amount added to
\* failed_requests_num and the value returned.
\*   "return": the return statement (populated outcome)
\*   "retry" : the retryable except clause ran, the loop goes on
\*   "none"  : the loop ended (break, or no attempts left): returns None
\*   "raise" : an exception no clause catches leaves _fetch
fetch_attempt(url, attempts_left, ev) ==
    LET exc == attempt_exception(ev) IN
    IF exc = "none" /\ ev.status \notin ERRORS_STATUS_CODES
    THEN [exit |-> "return", left |-> attempts_left, failed |-> 0,
          result |-> Populated(url, ev.status, response_json(ev.body).value)]
    ELSE IF exc = "none"
    THEN [exit |-> "none", left |-> attempts_left, failed |-> 0, result |-> None]
    ELSE IF BaseClass(exc) \in RetryableExceptions
    THEN [exit |-> IF loop_continues(attempts_left - REQUESTS_RETRIES_NUM_TO_REMOVE)
                    THEN "retry" ELSE "none",
          left |-> attempts_left - REQUESTS_RETRIES_NUM_TO_REMOVE,
          failed |-> REQUESTS_RETRIES_NUM_TO_REMOVE,
          result |-> None]
    ELSE IF exc \in BreakExceptions
    THEN [exit |-> "none", left |-> attempts_left, failed |-> 0, result |-> None]
    ELSE [exit |-> "raise", left |-> attempts_left, failed |-> 0, result |-> None]

(***************************************************************************)
(* State.                                                                  *)
(***************************************************************************)
VARIABLES
    mpc,        \* where the program stands: probe, generate, scan (main
                \* awaits create_make_requests), raised (an exception left
                \* main), teardown (asyncio.run cancels what still runs),
                \* done (main returned), exited
    domain,     \* run_config.domain
    output,     \* run_config.output
    probed,     \* what the https probe of probe_target_schema met
    schema,     \* result of probe_target_schema ("" before the probe)
    urls,       \* RequestManager._urls as given (possible_urls)
    sem_bound,  \* capacity of RequestManager._semaphore
    sem_value,  \* free slots of RequestManager._semaphore
    session,    \* RequestManager._session: "open" or "closed"
    failed_requests_num,  \* RequestManager._failed_requests_num
    pc,         \* per _fetch task: pending, inflight, done, raised, cancelled
    left,       \* per task: left_of_attempts_to_retry
    outcome,    \* per task: the value _fetch returned
    gets,       \* per task: session.get attempts made          (history)
    fails,      \* per task: what it added to failed_requests_num (history)
    last,       \* per task: the event of its latest attempt     (history)
    mr,         \* make_requests: idle, gathering, returned, raised
    results,    \* what create_make_requests returned to main
    file,       \* the file written by write_results_to_file
    logged,     \* logging.exception ran in the __main__ block
    exit_code   \* exit status of the process (-1 while it runs)

vars == << mpc, domain, output, probed, schema, urls, sem_bound, sem_value, session,
           failed_requests_num, pc, left, outcome, gets, fails, last, mr,
           results, file, logged, exit_code >>

mainVars == << domain, output, probed, schema >>
taskVars == << pc, left, outcome, gets, fails, last >>

Tasks == 1..Len(urls)

NoFile == [name |-> "none", content |-> <<>>]

Range(q) == { q[k] : k \in 1..Len(q) }

\* Sequences without repetition, of length 0..n, over the set S.
RECURSIVE DistinctSeqs(_, _)
DistinctSeqs(S, n) ==
    IF n = 0 THEN {<<>>}
    ELSE LET shorter == DistinctSeqs(S, n - 1) IN
         shorter \cup { Append(q, x) : q \in shorter, x \in S }

NoRepeat(q) == \A a, b \in 1..Len(q) : q[a] = q[b] => a = b

\* The URL lists Spec hands to the RequestManager: candidates of
\* https://example.com, one of them a numbered (host-less) one.
DefaultTarget == <<"https", "://", "example.com">>

UrlPool ==
    LET c == targets_to_check(DefaultTarget) IN { c[1], c[3], c[Len(FixedPaths) + 1] }

UrlLists == { q \in DistinctSeqs(UrlPool, MaxUrls) : NoRepeat(q) }

(***************************************************************************)
(* RequestManager.                                                         *)
(***************************************************************************)
\* Mutant: the results in reverse task order.
gather_reversed(outs) == [i \in 1..Len(outs) |-> outs[Len(outs) + 1 - i]]

\* asyncio.gather: the tasks' results in the order the tasks were given.
gather(outs) == [i \in 1..Len(outs) |-> outs[i]]

\* Mutant: acquire takes no slot.
sem_acquire_free(value) == value

\* BoundedSemaphore.acquire, once a slot is free.
sem_acquire(value) == value - 1

\* Mutant: the slot is given back only when _fetch ends without exception.
sem_aexit_leak(value, how) == IF how \in {"raise", "cancel"} THEN value ELSE value + 1

\* The value of the semaphore after a task left `async with self.semaphore`
\* by way `how` (return, none, raise, cancel): __aexit__ releases always.
sem_aexit(value, how) == value + 1

\* Mutant: the setter assigns instead of adding.
failed_requests_num_setter_assign(current, num) == num

\* failed_requests_num's setter: self._failed_requests_num += num
failed_requests_num_setter(current, num) == current + num

\* RequestManager.__init__ and the create_task of make_requests: the state
\* in which create_make_requests(urlList) awaits the gather, with a
\* semaphore of `capacity` slots.
ManagerInit(urlList, capacity) ==
    /\ urls = urlList
    /\ sem_bound = capacity
    /\ sem_value = capacity
    /\ session = "open"
    /\ failed_requests_num = 0
    /\ pc = [i \in 1..Len(urlList) |-> "pending"]
    /\ left = [i \in 1..Len(urlList) |-> 0]
    /\ outcome = [i \in 1..Len(urlList) |-> None]
    /\ gets = [i \in 1..Len(urlList) |-> 0]
    /\ fails = [i \in 1..Len(urlList) |-> 0]
    /\ last = [i \in 1..Len(urlList) |-> NoEvent]
    /\ mr = "gathering"

\* Spec starts where main() awaits RequestManager.create_make_requests.
Init ==
    /\ mpc = "scan"
    /\ domain = "example.com"
    /\ output = RESULT_FILE_NAME
    /\ probed = "response_with_headers"
    /\ schema = "https"
    /\ \E q \in UrlLists, c \in 1..MaxCapacity : ManagerInit(q, c)
    /\ results = <<>>
    /\ file = NoFile
    /\ logged = FALSE
    /\ exit_code = -1

\* A task may run while the event loop serves it: until asyncio.run has
\* asked for its cancellation.
Serving == mpc \in {"scan", "raised"}

\* _fetch up to its first session.get: `async with self.semaphore` gets a
\* slot, left_of_attempts_to_retry is set, the GET is sent.  On a closed
\* session the GET raises at once and the slot is given back.
Acquire(i) ==
    /\ Serving
    /\ pc[i] = "pending"
    /\ sem_value > 0
    /\ IF session = "open"
       THEN /\ pc' = [pc EXCEPT ![i] = "inflight"]
            /\ left' = [left EXCEPT ![i] = LIMIT_OF_ATTEMPTS_TO_RETRY]
            /\ sem_value' = sem_acquire(sem_value)
            /\ UNCHANGED << gets, last >>
       ELSE /\ pc' = [pc EXCEPT ![i] = "raised"]
            /\ left' = [left EXCEPT ![i] = LIMIT_OF_ATTEMPTS_TO_RETRY]
            /\ sem_value' = sem_aexit(sem_acquire(sem_value), "raise")
            /\ gets' = [gets EXCEPT ![i] = @ + 1]
            /\ last' = [last EXCEPT ![i] = SessionClosedEvent]
    /\ UNCHANGED << mpc, mainVars, urls, sem_bound, session, failed_requests_num,
                    outcome, fails, mr, results, file, logged, exit_code >>

\* The GET in flight of task i ends with event ev and the loop pass runs to
\* its next suspension: the next GET (retry) or the end of _fetch, which
\* leaves `async with self.semaphore`.  A retry on a closed session raises.
Complete(i, ev) ==
    /\ Serving
    /\ pc[i] = "inflight"
    /\ LET a == fetch_attempt(urls[i], left[i], ev)
           closedRetry == a.exit = "retry" /\ session = "closed"
           how == IF closedRetry THEN "raise" ELSE a.exit
       IN /\ left' = [left EXCEPT ![i] = a.left]
          /\ failed_requests_num' =
                IF a.failed > 0
                THEN failed_requests_num_setter(failed_requests_num, a.failed)
                ELSE failed_requests_num
          /\ fails' = [fails EXCEPT ![i] = @ + a.failed]
          /\ gets' = [gets EXCEPT ![i] = @ + (IF closedRetry THEN 2 ELSE 1)]
          /\ last' = [last EXCEPT ![i] = IF closedRetry THEN SessionClosedEvent ELSE ev]
          /\ outcome' = [outcome EXCEPT ![i] = a.result]
          /\ pc' = [pc EXCEPT ![i] =
                      CASE how = "retry" -> "inflight"
                        [] how = "raise" -> "raised"
                        [] OTHER -> "done"]
          /\ sem_value' = IF how = "retry" THEN sem_value ELSE sem_aexit(sem_value, how)
    /\ UNCHANGED << mpc, mainVars, urls, sem_bound, session, mr, results, file,
                    logged, exit_code >>

\* Mutant: nothing is filtered out.
filter_none_keep_all(rs) == rs

\* list(filter(None, results)): None is the only falsy outcome.
filter_none(rs) == SelectSeq(rs, LAMBDA r : r # None)

\* The file write_results_to_file opens: Config.RESULT_FILE_NAME, whatever
\* run_config.output is.
results_file_name(run_output) == RESULT_FILE_NAME

\* Mutant: the session is closed only after a gather that returned.
session_after_gather_no_close_on_error(how) ==
    IF how = "raise" THEN "open" ELSE "closed"

\* The session when `async with self.session` is left, by return or by an
\* exception: __aexit__ closes it either way.
session_after_gather(how) == "closed"

\* make_requests when every task has returned: gather gives the results in
\* task order, `async with self.session` closes the session, and
\* create_make_requests hands the results to main.
MakeRequestsReturn ==
    /\ mpc = "scan"
    /\ mr = "gathering"
    /\ \A i \in Tasks : pc[i] = "done"
    /\ results' = gather(outcome)
    /\ session' = session_after_gather("return")
    /\ mr' = "returned"
    /\ UNCHANGED << mpc, mainVars, urls, sem_bound, sem_value, failed_requests_num,
                    taskVars, file, logged, exit_code >>

\* make_requests when a task has raised: gather passes the first exception
\* on and leaves the other tasks running, `async with self.session` closes
\* the session, and the exception leaves create_make_requests and main.
MakeRequestsRaise ==
    /\ mpc = "scan"
    /\ mr = "gathering"
    /\ \E i \in Tasks : pc[i] = "raised"
    /\ session' = session_after_gather("raise")
    /\ mr' = "raised"
    /\ mpc' = "raised"
    /\ UNCHANGED << mainVars, urls, sem_bound, sem_value, failed_requests_num,
                    taskVars, results, file, logged, exit_code >>

\* main after create_make_requests returned: filter, then
\* write_results_to_file, where open() or write() may fail (OSError).
MainWriteResults ==
    /\ mpc = "scan"
    /\ mr = "returned"
    /\ \E ok \in BOOLEAN :
         IF ok
         THEN /\ file' = [name |-> results_file_name(output),
                          content |-> filter_none(results)]
              /\ mpc' = "done"
         ELSE /\ file' = file
              /\ mpc' = "raised"
    /\ UNCHANGED << mainVars, urls, sem_bound, sem_value, session,
                    failed_requests_num, taskVars, mr, results, logged, exit_code >>

\* asyncio.run(main()) when main raised: every task still running is asked
\* to cancel.
RunCancelAll ==
    /\ mpc = "raised"
    /\ mpc' = "teardown"
    /\ UNCHANGED << mainVars, urls, sem_bound, sem_value, session,
                    failed_requests_num, taskVars, mr, results, file, logged,
                    exit_code >>

\* CancelledError reaches task i: at the semaphore (no slot held) or at its
\* GET, inside `async with self.semaphore`.
CancelWorker(i) ==
    /\ mpc = "teardown"
    /\ pc[i] \in {"pending", "inflight"}
    /\ sem_value' = IF pc[i] = "inflight" THEN sem_aexit(sem_value, "cancel")
                    ELSE sem_value
    /\ pc' = [pc EXCEPT ![i] = "cancelled"]
    /\ UNCHANGED << mpc, mainVars, urls, sem_bound, session, failed_requests_num,
                    left, outcome, gets, fails, last, mr, results, file, logged,
                    exit_code >>

\* The status the process ends with after the __main__ block's except
\* clause has logged the exception: the block ends, the interpreter exits.
exit_status_after_except == 0

\* `except Exception as error: logging.exception(...)` of the __main__ block.
TopLevelExcept ==
    /\ mpc = "teardown"
    /\ \A i \in Tasks : pc[i] \notin {"pending", "inflight"}
    /\ logged' = TRUE
    /\ exit_code' = exit_status_after_except
    /\ mpc' = "exited"
    /\ UNCHANGED << mainVars, urls, sem_bound, sem_value, session,
                    failed_requests_num, taskVars, mr, results, file >>

\* main returned: the __main__ block logs the time and the process ends.
MainExit ==
    /\ mpc = "done"
    /\ exit_code' = 0
    /\ mpc' = "exited"
    /\ UNCHANGED << mainVars, urls, sem_bound, sem_value, session,
                    failed_requests_num, taskVars, mr, results, file, logged >>

(***************************************************************************)
(* The whole program, from main()'s probe on, with each _fetch run as one  *)
(* step against a server that answers a URL the same way every time.       *)
(***************************************************************************)
Domains == {"example.com", "Example.com"}
Outputs == {RESULT_FILE_NAME, "out.json"}

\* What the single GET of https://{target} can meet.
ProbeEvents ==
    {"response_with_headers", "response_without_headers",
     "ClientConnectorError", "ServerDisconnectedError"}

\* probe_target_schema: only ClientConnectorError is caught.
probe_target_schema(ev) ==
    IF ev = "response_with_headers" THEN [exc |-> "none", schema |-> "https"]
    ELSE IF ev = "response_without_headers" THEN [exc |-> "none", schema |-> "http"]
    ELSE IF ev = "ClientConnectorError" THEN [exc |-> "none", schema |-> "http"]
    ELSE [exc |-> ev, schema |-> ""]

\* target: str = f'{schema}://{run_config.domain}'
target_of(sch, dom) == <<sch, "://", dom>>

InitMain ==
    /\ mpc = "probe"
    /\ domain \in Domains
    /\ output \in Outputs
    /\ probed = "none"
    /\ schema = ""
    /\ urls = <<>>
    /\ sem_bound = 0
    /\ sem_value = 0
    /\ session = "none"
    /\ failed_requests_num = 0
    /\ pc = <<>>
    /\ left = <<>>
    /\ outcome = <<>>
    /\ gets = <<>>
    /\ fails = <<>>
    /\ last = <<>>
    /\ mr = "idle"
    /\ results = <<>>
    /\ file = NoFile
    /\ logged = FALSE
    /\ exit_code = -1

\* schema = await probe_target_schema(run_config.domain)
ProbeSchema ==
    /\ mpc = "probe"
    /\ \E ev \in ProbeEvents :
         LET p == probe_target_schema(ev) IN
         /\ probed' = ev
         /\ schema' = p.schema
         /\ mpc' = IF p.exc = "none" THEN "generate" ELSE "raised"
    /\ UNCHANGED << domain, output, urls, sem_bound, sem_value, session,
                    failed_requests_num, taskVars, mr, results, file, logged,
                    exit_code >>

\* possible_urls = targets_to_check(target), then create_make_requests
\* builds the RequestManager and make_requests creates one task per URL.
Generate ==
    /\ mpc = "generate"
    /\ mpc' = "scan"
    /\ LET q == targets_to_check(target_of(schema, domain)) IN
       /\ urls' = q
       /\ sem_bound' = SIMULTANEOUS_CONCURRENT_TASKS
       /\ sem_value' = SIMULTANEOUS_CONCURRENT_TASKS
       /\ session' = "open"
       /\ failed_requests_num' = 0
       /\ pc' = [i \in 1..Len(q) |-> "pending"]
       /\ left' = [i \in 1..Len(q) |-> 0]
       /\ outcome' = [i \in 1..Len(q) |-> None]
       /\ gets' = [i \in 1..Len(q) |-> 0]
       /\ fails' = [i \in 1..Len(q) |-> 0]
       /\ last' = [i \in 1..Len(q) |-> NoEvent]
       /\ mr' = "gathering"
    /\ UNCHANGED << mainVars, results, file, logged, exit_code >>

\* How the servers of SpecMain answer a URL, every time it is asked.
ServerEvents(url) ==
    IF URL(url).host = "" THEN {InvalidUrlEvent}
    ELSE { [kind |-> "http", exc |-> "none", status |-> 200,
            body |-> [ctype |-> "application/json", payload |-> "valid_json"]],
           [kind |-> "http", exc |-> "none", status |-> 200,
            body |-> [ctype |-> "application/json", payload |-> "invalid_json"]],
           [kind |-> "http", exc |-> "none", status |-> 404, body |-> NoBody],
           [kind |-> "error", exc |-> "ClientConnectorError", status |-> 0,
            body |-> NoBody] }

\* One server answer per URL of the list q.
RECURSIVE Servers(_)
Servers(q) ==
    IF q = <<>> THEN {<<>>}
    ELSE { <<e>> \o r : e \in ServerEvents(Head(q)), r \in Servers(Tail(q)) }

\* _fetch(url) from its first GET to its end when every attempt meets ev:
\* the loop passes of fetch_attempt, one after the other.
RECURSIVE run_fetch(_, _, _)
run_fetch(url, attempts_left, ev) ==
    LET a == fetch_attempt(url, attempts_left, ev) IN
    IF a.exit = "retry"
    THEN LET r == run_fetch(url, a.left, ev) IN
         [r EXCEPT !.failed = @ + a.failed, !.gets = @ + 1]
    ELSE [exit |-> a.exit, left |-> a.left, failed |-> a.failed,
          result |-> a.result, gets |-> 1]

RECURSIVE SumTo(_, _)
SumTo(f, n) == IF n = 0 THEN 0 ELSE f[n] + SumTo(f, n - 1)

\* The scan of SpecMain: every task runs to its end against its server; then
\* make_requests returns the gathered results, or passes on the exception
\* of a task that raised.
ScanAll ==
    /\ mpc = "scan"
    /\ mr = "gathering"
    /\ \E sv \in Servers(urls) :
         LET run == [i \in Tasks |-> run_fetch(urls[i], LIMIT_OF_ATTEMPTS_TO_RETRY, sv[i])]
             raised == \E i \in Tasks : run[i].exit = "raise"
         IN /\ pc' = [i \in Tasks |-> IF run[i].exit = "raise" THEN "raised" ELSE "done"]
            /\ left' = [i \in Tasks |-> run[i].left]
            /\ outcome' = [i \in Tasks |-> run[i].result]
            /\ gets' = [i \in Tasks |-> run[i].gets]
            /\ fails' = [i \in Tasks |-> run[i].failed]
            /\ last' = sv
            /\ failed_requests_num' =
                 failed_requests_num_setter(failed_requests_num,
                                            SumTo([i \in Tasks |-> run[i].failed], Len(urls)))
            /\ results' = IF raised THEN results ELSE gather([i \in Tasks |-> run[i].result])
            /\ mr' = IF raised THEN "raised" ELSE "returned"
            /\ mpc' = IF raised THEN "raised" ELSE "scan"
    /\ session' = session_after_gather("return")
    /\ UNCHANGED << mainVars, urls, sem_bound, sem_value, file, logged, exit_code >>

NextMain ==
    \/ ProbeSchema
    \/ Generate
    \/ ScanAll
    \/ MainWriteResults
    \/ RunCancelAll
    \/ TopLevelExcept
    \/ MainExit

SpecMain == InitMain /\ [][NextMain]_vars

Next ==
    \/ \E i \in Tasks : Acquire(i)
    \/ \E i \in Tasks : \E ev \in Events(urls[i]) : Complete(i, ev)
    \/ MakeRequestsReturn
    \/ MakeRequestsRaise
    \/ MainWriteResults
    \/ RunCancelAll
    \/ \E i \in Tasks : CancelWorker(i)
    \/ TopLevelExcept
    \/ MainExit

Spec == Init /\ [][Next]_vars

\* What make_requests, main and asyncio.run do, as one process.
Orchestrator ==
    \/ MakeRequestsReturn
    \/ MakeRequestsRaise
    \/ MainWriteResults
    \/ RunCancelAll
    \/ \E i \in Tasks : CancelWorker(i)
    \/ TopLevelExcept
    \/ MainExit

\* The event loop runs every task that is ready (a task waiting for a free
\* slot, a task whose GET has completed or failed) and the coroutine that
\* awaits gather: no ready task is passed over for ever.
Fairness ==
    /\ \A i \in 1..MaxUrls : WF_vars(i \in Tasks /\ Acquire(i))
    /\ \A i \in 1..MaxUrls :
         WF_vars(i \in Tasks /\ \E ev \in Events(urls[i]) : Complete(i, ev))
    /\ WF_vars(Orchestrator)

SpecFair == Init /\ [][Next]_vars /\ Fairness

(***************************************************************************)
(* Properties.                                                             *)
(***************************************************************************)
InFlight == { i \in Tasks : pc[i] = "inflight" }
Finished == \A i \in Tasks : pc[i] \notin {"pending", "inflight"}
TerminalStatuses == {400, 403, 404, 500}
IsPopulated(r) == r.url # <<>> /\ r.status_code # 0 /\ r.body # "none"

\* C1: at every moment of a scan the number of _fetch tasks inside the
\* guarded section (a GET in flight, anywhere in the retry loop) is at most
\* the capacity C of the semaphore, also when there are more URLs than C.
C1_InFlightAtMostCapacity == Cardinality(InFlight) <= sem_bound

\* C1 witness: more URLs than slots, every slot taken, a task waiting.
C1_Witness ==
    /\ Len(urls) > sem_bound
    /\ Cardinality(InFlight) = sem_bound
    /\ \E i \in Tasks : pc[i] = "pending"

\* C2: what make_requests returns has one entry per candidate, entry i being
\* the outcome of candidate i whatever the completion order; the filtered
\* result set is no longer than the input and lists the populated outcomes
\* in the order of their URLs in the input.
C2_ResultsInInputOrder ==
    /\ mr = "returned" =>
         /\ Len(results) = Len(urls)
         /\ \A i \in Tasks :
              /\ results[i] = outcome[i]
              /\ results[i] # None => results[i].url = urls[i]
    /\ file # NoFile =>
         /\ Len(file.content) <= Len(urls)
         /\ \E f \in [1..Len(file.content) -> Tasks] :
              /\ \A a, b \in 1..Len(file.content) : a < b => f[a] < f[b]
              /\ \A k \in 1..Len(file.content) :
                   /\ file.content[k] = results[f[k]]
                   /\ file.content[k].url = urls[f[k]]
              /\ \A i \in Tasks :
                   results[i] # None => \E k \in 1..Len(file.content) : f[k] = i

\* C2 witness: two candidates, both populated, written in input order.
C2_Witness ==
    /\ Len(urls) = 2
    /\ file # NoFile
    /\ Len(file.content) = 2
    /\ file.content[1].url = urls[1]
    /\ file.content[2].url = urls[2]

C4_FirstNonTerminalIsPopulated ==
    \A i \in Tasks :
        (gets[i] = 1 /\ last[i].kind = "http" /\ last[i].status \notin TerminalStatuses) =>
            /\ pc[i] = "done"
            /\ IsPopulated(outcome[i])
            /\ outcome[i].status_code = last[i].status
            /\ left[i] = LIMIT_OF_ATTEMPTS_TO_RETRY
            /\ fails[i] = 0

\* C4 (amended): a URL whose first GET completes with a status outside
\* {400, 403, 404, 500} and with a body that response.json() decodes has,
\* after that one GET, the populated outcome {url, status_code, body}, its
\* retry counter still at the budget and nothing added to the failure
\* counter.
C4_FirstDecodedNonTerminalIsPopulated ==
    \A i \in Tasks :
        ( /\ gets[i] = 1
          /\ last[i].kind = "http"
          /\ last[i].status \notin TerminalStatuses
          /\ last[i].body = [ctype |-> "application/json", payload |-> "valid_json"] ) =>
            /\ pc[i] = "done"
            /\ outcome[i] = [url |-> urls[i], status_code |-> last[i].status,
                              body |-> "{id: 1, name: admin}"]
            /\ left[i] = LIMIT_OF_ATTEMPTS_TO_RETRY
            /\ fails[i] = 0

\* C4 witness: a first GET answered 200 with a JSON body, another task
\* having failed meanwhile.
C4_Witness ==
    \E i, j \in Tasks :
        /\ gets[i] = 1
        /\ last[i].status = 200
        /\ last[i].body.payload = "valid_json"
        /\ pc[i] = "done"
        /\ fails[j] > 0
        /\ failed_requests_num > 0

\* C5: a GET that completes with a status in {400, 403, 404, 500} ends the
\* task with the empty outcome: no further GET for the URL, the retry
\* counter and the failure counter are left as they were.
C5_TerminalStatusEndsTask ==
    /\ [](\A i \in Tasks :
            (last[i].kind = "http" /\ last[i].status \in TerminalStatuses) =>
                (pc[i] = "done" /\ outcome[i] = None))
    /\ [][\A i \in Tasks :
            (gets'[i] # gets[i] /\ last'[i].kind = "http"
                                /\ last'[i].status \in TerminalStatuses) =>
                /\ gets'[i] = gets[i] + 1
                /\ left'[i] = left[i]
                /\ fails'[i] = fails[i]
                /\ failed_requests_num' = failed_requests_num]_vars

\* C5 witness: a 404 seen on the third attempt, after two retries.
C5_Witness ==
    \E i \in Tasks :
        /\ last[i].kind = "http"
        /\ last[i].status = 404
        /\ gets[i] = 3
        /\ fails[i] = 2
        /\ pc[i] = "done"

\* C6 (as claimed): no failure of a single probe aborts the scan:
\* make_requests never ends by an exception, it returns an outcome for
\* every candidate, and main fails only when writing the file fails.
C6_NoProbeFailureAbortsScan ==
    /\ mr # "raised"
    /\ mr = "returned" => Len(results) = Len(urls)
    /\ \A i \in Tasks : pc[i] # "cancelled"

\* C7: the semaphore leaks no slot: the slots held are exactly those of the
\* tasks inside the guarded section, on every way out of _fetch, and once
\* every task has finished all C slots are free.
C7_NoSlotLeak ==
    /\ sem_bound - sem_value = Cardinality(InFlight)
    /\ sem_value \in 0..sem_bound
    /\ Finished => sem_value = sem_bound

\* C7 witness: every task has finished, one by an uncaught exception and
\* one cancelled inside the guarded section.
C7_Witness ==
    /\ Finished
    /\ \E i \in Tasks : pc[i] = "raised"
    /\ \E i \in Tasks : pc[i] = "cancelled" /\ left[i] > 0
    /\ sem_value = sem_bound

\* C8: for target https://example.com, when .../wp-json/wp/v2/users answers
\* 200 with a JSON body and every other candidate gives nothing usable (404,
\* or a URL that cannot be sent), the scan returns and what is written is
\* the one-element array holding that URL, 200 and the decoded body.
UsersUrl == <<"https", "://", "example.com", "/wp-json/wp/v2/users">>

C8_Scenario ==
    /\ schema = "https"
    /\ domain = "example.com"
    /\ mr \in {"returned", "raised"}
    /\ \A i \in Tasks :
         IF urls[i] = UsersUrl
         THEN /\ last[i].status = 200
              /\ last[i].body = [ctype |-> "application/json", payload |-> "valid_json"]
         ELSE last[i].status = 404 \/ last[i].exc = "InvalidURL"

C8_EndToEnd ==
    C8_Scenario =>
        /\ \E i \in Tasks : urls[i] = UsersUrl
        /\ mr = "returned"
        /\ file # NoFile =>
             file.content = << [url |-> UsersUrl, status_code |-> 200,
                                body |-> "{id: 1, name: admin}"] >>

\* C8 witness: the scenario, with the file written.
C8_Witness == C8_Scenario /\ file # NoFile /\ mpc = "exited"

\* C9 (as claimed): when the https probe raises a connection failure the
\* schema is http and every generated candidate starts with http://<domain>.
C9_AllCandidatesHaveHttpPrefix ==
    (probed = "ClientConnectorError" /\ mpc # "probe") =>
        /\ schema = "http"
        /\ \A i \in Tasks :
             /\ Len(urls[i]) >= 3
             /\ SubSeq(urls[i], 1, 3) = <<"http", "://", domain>>

\* C10 (as claimed): when an exception leaves main() it is logged and the
\* process ends with a non-zero exit status.
C10_FailureExitsNonZero ==
    (mpc = "exited" /\ file = NoFile) => (logged /\ exit_code # 0)

\* C11 (as claimed): the results are written to the path given with
\* --output/-o; the default path is used only when none is given.
C11_WrittenToConfiguredOutput ==
    file # NoFile => file.name = output

\* An attempt that ends in the retryable except clause, told from its event
\* alone: a transport error, or a non-terminal response that is not JSON by
\* its content type.
IsRetryableFailure(ev) ==
    \/ /\ ev.kind = "error"
       /\ ev.exc \in {"ClientConnectorError", "ClientResponseError", "TimeoutError",
                      "ServerTimeoutError", "ServerDisconnectedError", "ClientOSError"}
    \/ /\ ev.kind = "http"
       /\ ev.status \notin TerminalStatuses
       /\ ev.body.ctype # "application/json"

\* An attempt that ends in the non-retryable except clause: a malformed URL,
\* or a non-terminal JSON response whose bytes do not decode.
IsNonRetryableFailure(ev) ==
    \/ ev.kind = "error" /\ ev.exc = "InvalidURL"
    \/ /\ ev.kind = "http"
       /\ ev.status \notin TerminalStatuses
       /\ ev.body = [ctype |-> "application/json", payload |-> "invalid_utf8"]

\* This step holds a retryable failure of task i: its GET failed that way,
\* or (two GETs in one step) it failed that way and the GET of the next pass
\* was refused because the session was closed.
RetryableFailureOf(i) ==
    \/ gets'[i] = gets[i] + 1 /\ IsRetryableFailure(last'[i])
    \/ gets'[i] = gets[i] + 2

\* C12: a GET that raises a non-retryable failure (malformed URL, bytes that
\* do not decode) ends the task at once with the empty outcome: no further
\* GET, the retry counter and the failure counter left as they were,
\* whatever number of retryable failures came before.
C12_NonRetryableEndsTask ==
    /\ [](\A i \in Tasks :
            IsNonRetryableFailure(last[i]) => (pc[i] = "done" /\ outcome[i] = None))
    /\ [][\A i \in Tasks :
            (gets'[i] # gets[i] /\ IsNonRetryableFailure(last'[i])) =>
                /\ gets'[i] = gets[i] + 1
                /\ left'[i] = left[i]
                /\ fails'[i] = fails[i]
                /\ failed_requests_num' = failed_requests_num]_vars

\* C12 witness: bytes that do not decode on the third attempt, after two
\* retryable failures.
C12_Witness ==
    \E i \in Tasks :
        /\ last[i].kind = "http"
        /\ last[i].body.payload = "invalid_utf8"
        /\ gets[i] = 3
        /\ fails[i] = 2
        /\ left[i] = LIMIT_OF_ATTEMPTS_TO_RETRY - 2
        /\ pc[i] = "done"

IsOutcomeOf(r, i) ==
    /\ r.url = urls[i]
    /\ last[i].kind = "http"
    /\ r.status_code = last[i].status
    /\ r.status_code \notin TerminalStatuses
    /\ r.body # "none"

C17_NoReturnWhileWorkersLive ==
    mr \in {"returned", "raised"} =>
        \A i \in Tasks : pc[i] \notin {"pending", "inflight"}

\* C18 (as claimed): with every GET completing or failing and fair
\* scheduling, every task gets a slot and reaches a final outcome, and the
\* scan returns.
C18_EveryWorkerEndsAndScanReturns ==
    <>(mr = "returned" /\ \A i \in Tasks : pc[i] = "done")

\* What is left for task i to do at most: a task waiting for a slot has its
\* whole loop before it, a task in its loop as many passes as attempts left.
RemainingWork(i) ==
    CASE pc[i] = "pending"  -> LIMIT_OF_ATTEMPTS_TO_RETRY + 2
      [] pc[i] = "inflight" -> left[i] + 1
      [] OTHER              -> 0

TotalRemainingWork == SumTo([i \in Tasks |-> RemainingWork(i)], Len(urls))

\* A step of the scan: a task moves, or make_requests ends.
ScanStep ==
    \/ \E i \in Tasks : Acquire(i)
    \/ \E i \in Tasks : \E ev \in Events(urls[i]) : Complete(i, ev)
    \/ MakeRequestsReturn
    \/ MakeRequestsRaise

\* C19: the session is closed when make_requests ends, by return or by an
\* exception, once and for good, and never before the scan has issued a
\* request (when there is a URL to request). make_requests always comes to
\* its end: while it gathers a step of the scan is possible, and every such
\* step ends it or lessens the work left, which is finite.
C19_SessionClosedOnceOnEveryExit ==
    /\ [](session = "closed" <=> mr \in {"returned", "raised"})
    /\ [](session = "closed" => (Len(urls) = 0 \/ \E i \in Tasks : gets[i] >= 1))
    /\ [](mr = "gathering" => ENABLED ScanStep)
    /\ [][mr = "gathering" =>
            (mr' # "gathering" \/ TotalRemainingWork' < TotalRemainingWork)]_vars
    /\ [][session' # session =>
            (session = "open" /\ session' = "closed" /\ mr = "gathering")]_vars

\* C19 witness: the session closed by an exception that left make_requests,
\* a GET of another task still in flight.
C19_Witness ==
    /\ session = "closed"
    /\ mr = "raised"
    /\ \E i \in Tasks : pc[i] = "inflight"

\* C20 (as claimed): the session is never closed while a task waits for a
\* slot or is in its retry loop, and no task issues a GET on a closed
\* session.
C20_NoLiveWorkerOnClosedSession ==
    /\ session = "closed" => \A i \in Tasks : pc[i] \notin {"pending", "inflight"}
    /\ \A i \in Tasks : last[i] # SessionClosedEvent

====
